---- MODULE Spec2Model ----
(***************************************************************************)
(* Model of src/app.py: the retry wrapper call_hackai_generate and the    *)
(* block parser _block_parse.                                             *)
(*                                                                         *)
(* Text is a sequence of tokens.  Each token stands for one fixed string, *)
(* chosen so that every regular expression of the source matches whole    *)
(* tokens only:                                                            *)
(*   "HDR"  = "### Problem 1"   "HASH" = "###"      "PROB" = "Problem 2"  *)
(*   "STMT" = "Statement:"      "SOLN" = "Solution:" "ANS" = "answer:"    *)
(*   "W"    = "x"               "NL"   = "\n"        "SP"  = " "          *)
(* "HASH" followed by optional white space and "PROB" spells a string the *)
(* delimiter pattern ###\s*Problem\s*\d+ matches, exactly as "HDR" does.  *)
(***************************************************************************)
EXTENDS Integers, Sequences, FiniteSets, TLC

VARIABLES
    txt,            \* _block_parse: the text being parsed (tokens)
    emitted,        \* number of pieces the text was produced from
    num,            \* _block_parse: requested count
    parsed,         \* _block_parse: its return value
    phase,          \* parser run: "input" while the text is produced, "done" after the parse
    num_problems,   \* call_hackai_generate: requested count N
    backoff,        \* call_hackai_generate: backoff argument
    attempt,        \* loop variable of line 56
    last_raw,       \* local of line 54
    pc,             \* position of call_hackai_generate
    result,         \* its return value
    raised,         \* TRUE when an exception left call_hackai_generate
    history,        \* outcome of every remote call issued so far, in order
    log             \* remote calls and sleeps in the order they happened

vars == <<txt, emitted, num, parsed, phase, num_problems, backoff, attempt, last_raw,
          pc, result, raised, history, log>>

parserVars == <<txt, emitted, num, parsed, phase>>
clientVars == <<num_problems, backoff, attempt, last_raw, pc, result, raised,
                history, log>>

----------------------------------------------------------------------------
(* Bounds of the model *)

MaxPieces == 4
MaxN == 3
MaxBackoff == 2

----------------------------------------------------------------------------
(* Strings *)

Token == {"HDR", "HASH", "PROB", "STMT", "SOLN", "ANS", "W", "NL", "SP"}

IsSpace(t) == t \in {"NL", "SP"}

RECURSIVE lstrip(_)
lstrip(s) ==
    IF s = <<>> THEN s
    ELSE IF IsSpace(Head(s)) THEN lstrip(Tail(s)) ELSE s

RECURSIVE rstrip(_)
rstrip(s) ==
    IF s = <<>> THEN s
    ELSE IF IsSpace(s[Len(s)]) THEN rstrip(SubSeq(s, 1, Len(s) - 1)) ELSE s

\* str.strip()
strip(s) == rstrip(lstrip(s))

\* Index of the first token of s that belongs to set T, 0 when there is none
\* (the start of re.search's match).
RECURSIVE FindFrom(_, _, _)
FindFrom(s, T, i) ==
    IF i > Len(s) THEN 0
    ELSE IF s[i] \in T THEN i ELSE FindFrom(s, T, i + 1)

Find(s, T) == FindFrom(s, T, 1)

\* A Python value that is either a str or None.
Str(s) == [isstr |-> TRUE, s |-> s]
NoneValue == [isstr |-> FALSE, s |-> <<>>]

----------------------------------------------------------------------------
(* _block_parse *)

\* Number of tokens that ###\s*Problem\s*\d+ matches at the front of s
\* (0: no match there).
DelimiterMatch(s) ==
    IF s = <<>> THEN 0
    ELSE IF Head(s) = "HDR" THEN 1
    ELSE IF Head(s) = "HASH"
         THEN LET r == Tail(s)
                  k == Len(r) - Len(lstrip(r))
              IN  IF k < Len(r) /\ r[k + 1] = "PROB" THEN k + 2 ELSE 0
    ELSE 0

\* re.split(r"###\s*Problem\s*\d+", txt): the text between the matches.
RECURSIVE SplitBlocks(_, _)
SplitBlocks(s, cur) ==
    IF s = <<>> THEN <<cur>>
    ELSE LET m == DelimiterMatch(s)
         IN  IF m > 0
             THEN <<cur>> \o SplitBlocks(SubSeq(s, m + 1, Len(s)), <<>>)
             ELSE SplitBlocks(Tail(s), Append(cur, Head(s)))

\* re.split(r"(Statement|Solution)\s*:\s*", b): text, label, text, label, ...
RECURSIVE SplitParts(_, _)
SplitParts(s, cur) ==
    IF s = <<>> THEN <<cur>>
    ELSE IF Head(s) \in {"STMT", "SOLN"}
         THEN <<cur, <<Head(s)>>>> \o SplitParts(lstrip(Tail(s)), <<>>)
         ELSE SplitParts(Tail(s), Append(cur, Head(s)))

\* Lines 129-130: the value up to the next "Solution:" label in it.
StatementValue(value) ==
    LET next_key_match == Find(value, {"SOLN"})
    IN  IF next_key_match > 0
        THEN strip(SubSeq(value, 1, next_key_match - 1))
        ELSE strip(value)

\* Lines 124-133: the loop over the labels; the last label of a kind wins.
RECURSIVE ScanParts(_, _, _, _)
ScanParts(parts, i, statement, solution) ==
    IF i > Len(parts) THEN [statement |-> statement, solution |-> solution]
    ELSE LET key == parts[i]
             value == strip(parts[i + 1])
         IN  IF key = <<"STMT">>
             THEN ScanParts(parts, i + 2, StatementValue(value), solution)
             ELSE ScanParts(parts, i + 2, statement, strip(value))

\* Lines 135-140: the text before the first "Solution:" label, or all of b.
FallbackStatement(b) ==
    LET p == Find(b, {"SOLN"})
    IN  IF p > 0 THEN strip(SubSeq(b, 1, p - 1)) ELSE strip(b)

\* A solution fallback that mirrors line 140's "else b".
FallbackSolutionElseBlock(b) ==
    LET p == Find(b, {"SOLN"})
    IN  IF p > 0 THEN strip(SubSeq(b, p + 1, Len(b))) ELSE b

\* Lines 142-147: the text after the first "Solution:" label, or nothing.
FallbackSolution(b) ==
    LET p == Find(b, {"SOLN"})
    IN  IF p > 0 THEN strip(SubSeq(b, p + 1, Len(b))) ELSE <<>>

\* re.sub(r"###$", "", s).strip()
StripTrailingHash(s) ==
    IF s # <<>> /\ s[Len(s)] = "HASH"
    THEN strip(SubSeq(s, 1, Len(s) - 1))
    ELSE strip(s)

\* str.splitlines()
RECURSIVE splitlines(_)
splitlines(s) ==
    IF s = <<>> THEN <<>>
    ELSE LET p == Find(s, {"NL"})
         IN  IF p = 0 THEN <<s>>
             ELSE <<SubSeq(s, 1, p - 1)>> \o splitlines(SubSeq(s, p + 1, Len(s)))

\* ln.lower().startswith("answer:")
StartsWithAnswer(ln) == ln # <<>> /\ Head(ln) = "ANS"

\* "\n".join(lines)
RECURSIVE JoinLines(_)
JoinLines(lines) ==
    IF lines = <<>> THEN <<>>
    ELSE IF Len(lines) = 1 THEN Head(lines)
    ELSE Head(lines) \o <<"NL">> \o JoinLines(Tail(lines))

\* Lines 151-154: drop the lines that start with "answer:".
DropAnswerLines(s) ==
    LET lines == splitlines(s)
        keep == SelectSeq(lines, LAMBDA ln : ~StartsWithAnswer(ln))
    IN  strip(JoinLines(keep))

\* Line 155: re.sub(r"^Problem\s*\d+\s*", "", s).strip()
StripLeadingProblem(s) ==
    IF s # <<>> /\ Head(s) = "PROB" THEN strip(Tail(s)) ELSE strip(s)

\* Lines 149, 151-155: the cleanup of the statement.
CleanStatement(statement) ==
    StripLeadingProblem(DropAnswerLines(StripTrailingHash(statement)))

\* Lines 119-161: the record of one non-empty block b.
BlockRecord(b) ==
    LET parts == SplitParts(b, <<>>)
        scan == ScanParts(parts, 2, <<>>, <<>>)
        statement == IF scan.statement = <<>> THEN FallbackStatement(b)
                     ELSE scan.statement
        solution == IF scan.solution = <<>> THEN FallbackSolution(b)
                    ELSE scan.solution
    IN  [title |-> "",
         statement |-> CleanStatement(statement),
         solution |-> StripTrailingHash(solution)]

\* Lines 163-164: the test that ends the loop, made after the append.
EnoughProblems(problems, n) == Len(problems) >= n

\* Lines 114-166: the loop over the blocks.
RECURSIVE ParseBlocks(_, _, _)
ParseBlocks(blocks, n, problems) ==
    IF blocks = <<>> THEN problems
    ELSE LET b == strip(Head(blocks))
         IN  IF b = <<>> THEN ParseBlocks(Tail(blocks), n, problems)
             ELSE LET more == Append(problems, BlockRecord(b))
                  IN  IF EnoughProblems(more, n) THEN more
                      ELSE ParseBlocks(Tail(blocks), n, more)

\* Lines 107-166.
_block_parse(t, n) ==
    IF ~t.isstr \/ strip(t.s) = <<>> THEN <<>>
    ELSE ParseBlocks(SplitBlocks(t.s, <<>>), n, <<>>)

----------------------------------------------------------------------------
(* The parser run: a text is produced piece by piece, then parsed. *)

\* The block format the prompt asks for (lines 264-267).
WellFormedBlock ==
    <<"HDR", "NL", "STMT", "SP", "W", "NL", "SOLN", "SP", "W", "NL", "HASH", "NL">>

Pieces == {<<t>> : t \in Token} \cup {WellFormedBlock}

ClientIdle ==
    /\ num_problems = 0
    /\ backoff = 1
    /\ attempt = 0
    /\ last_raw = Str(<<>>)
    /\ pc = "idle"
    /\ result = <<>>
    /\ raised = FALSE
    /\ history = <<>>
    /\ log = <<>>

ParseInit ==
    /\ txt = <<>>
    /\ emitted = 0
    /\ num \in 0..MaxN
    /\ parsed = <<>>
    /\ phase = "input"
    /\ ClientIdle

\* The remote model's text grows by one piece.
Produce(piece) ==
    /\ phase = "input"
    /\ emitted < MaxPieces
    /\ txt' = txt \o piece
    /\ emitted' = emitted + 1
    /\ UNCHANGED <<num, parsed, phase>>
    /\ UNCHANGED clientVars

\* _block_parse(txt, num) is called and returns.
Parse ==
    /\ phase = "input"
    /\ parsed' = _block_parse(Str(txt), num)
    /\ phase' = "done"
    /\ UNCHANGED <<txt, emitted, num>>
    /\ UNCHANGED clientVars

ParseNext ==
    \/ \E piece \in Pieces : Produce(piece)
    \/ Parse

ParseSpec == ParseInit /\ [][ParseNext]_vars

----------------------------------------------------------------------------
(* call_hackai_generate *)

\* Line 50: the default of max_attempts.
max_attempts == 3

\* Line 93: the truth value of last_raw.
Truthy(v) == v.isstr /\ v.s # <<>>

\* Lines 94-98: the synthetic record.
ApiErrorRecord ==
    [title |-> "API Error",
     statement |-> <<"No response from HackAI (likely overload). Try again later.">>,
     solution |-> <<"The model returned no output.">>]

\* A text of k blocks in the format the prompt asks for.
RECURSIVE BlockText(_)
BlockText(k) == IF k = 0 THEN <<>> ELSE WellFormedBlock \o BlockText(k - 1)

\* Line 80: what data["choices"][0]["message"]["content"] can hold: null, an
\* empty text, white space, a text with no delimiter, a text of 1..MaxN blocks.
Contents ==
    {NoneValue, Str(<<>>), Str(<<"NL">>), Str(<<"W">>)}
        \cup {Str(BlockText(k)) : k \in 1..MaxN}

\* Lines 71, 79, 80: what can be raised inside the try block: by
\* requests.post, by r.json(), by the indexing of the decoded body.
Exceptions == {"RequestException", "ValueError", "KeyError"}

\* A handler that catches the transport's exceptions only.
CaughtRequestOnly(e) == e = "RequestException"

\* Line 87: "except Exception" catches each of them.
Caught(e) == e \in Exceptions

\* A sleep that does not grow with the attempt number.
SleepTimeFlat(b, k) == b

\* Lines 76, 90: the argument of time.sleep.
SleepTime(b, k) == b * k

\* An early return that wants more records than were asked for.
SufficientStrict(problems, n) == Len(problems) > n

\* Line 84: the test for an early return.
Sufficient(problems, n) == Len(problems) >= n

\* Lines 77, 86-90: where an attempt that did not return goes next.
AfterStatusError(k) == "sleep76"

\* A loop that does not sleep after its last attempt.
AfterAttemptSkipLast(k) == IF k = max_attempts THEN "fallback" ELSE "sleep90"

AfterAttempt(k) == "sleep90"

\* Line 56: the loop's next iteration, or the code after the loop.
LoopNext(k) == IF k + 1 <= max_attempts THEN "post" ELSE "fallback"

ParserIdle ==
    /\ txt = <<>>
    /\ emitted = 0
    /\ num = 0
    /\ parsed = <<>>
    /\ phase = "idle"

\* Lines 187, 280, 50-56: generate() calls with the form's num_problems.
Init ==
    /\ num_problems \in 0..MaxN
    /\ backoff \in 1..MaxBackoff
    /\ attempt = 1
    /\ last_raw = Str(<<>>)
    /\ pc = "post"
    /\ result = <<>>
    /\ raised = FALSE
    /\ history = <<>>
    /\ log = <<>>
    /\ ParserIdle

Called == Append(log, [op |-> "call", n |-> attempt])

\* Lines 71-77: the remote call answers with a status other than 200.
StatusError ==
    /\ pc = "post"
    /\ history' = Append(history, [kind |-> "status", raw |-> NoneValue])
    /\ log' = Called
    /\ pc' = AfterStatusError(attempt)
    /\ UNCHANGED <<num_problems, backoff, attempt, last_raw, result, raised>>
    /\ UNCHANGED parserVars

\* Lines 71, 79, 80, 87-88: the call, or the decoding of its answer, raises.
RaiseInTry(e) ==
    /\ pc = "post"
    /\ history' = Append(history, [kind |-> "exception", raw |-> NoneValue])
    /\ log' = Called
    /\ IF Caught(e)
       THEN pc' = AfterAttempt(attempt) /\ raised' = raised
       ELSE pc' = "done" /\ raised' = TRUE
    /\ UNCHANGED <<num_problems, backoff, attempt, last_raw, result>>
    /\ UNCHANGED parserVars

\* Lines 71-85: the call answers 200 with content raw.
Response(raw) ==
    /\ pc = "post"
    /\ history' = Append(history, [kind |-> "ok", raw |-> raw])
    /\ log' = Called
    /\ last_raw' = raw
    /\ LET problems == _block_parse(raw, num_problems)
       IN  IF Sufficient(problems, num_problems)
           THEN result' = problems /\ pc' = "done"
           ELSE result' = result /\ pc' = AfterAttempt(attempt)
    /\ UNCHANGED <<num_problems, backoff, attempt, raised>>
    /\ UNCHANGED parserVars

\* Lines 76-77: the sleep after a status error, then "continue".
Sleep76 ==
    /\ pc = "sleep76"
    /\ log' = Append(log, [op |-> "sleep", n |-> SleepTime(backoff, attempt)])
    /\ pc' = LoopNext(attempt)
    /\ attempt' = attempt + 1
    /\ UNCHANGED <<num_problems, backoff, last_raw, result, raised, history>>
    /\ UNCHANGED parserVars

\* Line 90: the sleep at the end of the loop body.
Sleep90 ==
    /\ pc = "sleep90"
    /\ log' = Append(log, [op |-> "sleep", n |-> SleepTime(backoff, attempt)])
    /\ pc' = LoopNext(attempt)
    /\ attempt' = attempt + 1
    /\ UNCHANGED <<num_problems, backoff, last_raw, result, raised, history>>
    /\ UNCHANGED parserVars

\* Lines 92-100: the fallback after the loop.
Fallback ==
    /\ pc = "fallback"
    /\ result' = IF ~Truthy(last_raw) THEN <<ApiErrorRecord>>
                 ELSE _block_parse(last_raw, num_problems)
    /\ pc' = "done"
    /\ UNCHANGED <<num_problems, backoff, attempt, last_raw, raised, history, log>>
    /\ UNCHANGED parserVars

Next ==
    \/ StatusError
    \/ \E e \in Exceptions : RaiseInTry(e)
    \/ \E raw \in Contents : Response(raw)
    \/ Sleep76
    \/ Sleep90
    \/ Fallback

Spec == Init /\ [][Next]_vars

----------------------------------------------------------------------------
(* Vocabulary of the parser's properties *)

\* The segments that follow a "### Problem i" delimiter, stripped, the empty
\* ones left out: the text's "### Problem i" blocks.
ProblemBlocks(t) ==
    LET stripped == [i \in 1..(Len(SplitBlocks(t, <<>>)) - 1) |->
                        strip(SplitBlocks(t, <<>>)[i + 1])]
    IN  SelectSeq(stripped, LAMBDA b : b # <<>>)

\* Every non-empty segment, the text before the first delimiter included:
\* the candidate blocks, in the order the parser meets them.
CandidateBlocks(t) ==
    LET stripped == [i \in 1..Len(SplitBlocks(t, <<>>)) |->
                        strip(SplitBlocks(t, <<>>)[i])]
    IN  SelectSeq(stripped, LAMBDA b : b # <<>>)

\* Plain text: words and white space, at least one word.
IsPlainText(s) ==
    /\ \A i \in 1..Len(s) : s[i] \in {"W", "SP", "NL"}
    /\ \E i \in 1..Len(s) : s[i] = "W"

\* The text of a well-formed block after its "Statement:" label, up to its
\* "Solution:" label.
WellFormedStatement(b) == strip(SubSeq(b, 2, Find(b, {"SOLN"}) - 1))

\* The text of a well-formed block after its "Solution:" label, its closing
\* "###" left out.
WellFormedSolution(b) ==
    LET rest == strip(SubSeq(b, Find(b, {"SOLN"}) + 1, Len(b)))
    IN  IF rest # <<>> /\ rest[Len(rest)] = "HASH"
        THEN strip(SubSeq(rest, 1, Len(rest) - 1))
        ELSE rest

\* A block "Statement: <text> Solution: <text>", optionally closed by "###".
IsWellFormed(b) ==
    /\ b # <<>>
    /\ Head(b) = "STMT"
    /\ Find(b, {"SOLN"}) > 2
    /\ IsPlainText(WellFormedStatement(b))
    /\ IsPlainText(WellFormedSolution(b))

\* Every "### Problem i" delimiter of the text opens a well-formed block.
AllWellFormed(t) ==
    LET blocks == SplitBlocks(t, <<>>)
    IN  \A i \in 2..Len(blocks) : IsWellFormed(strip(blocks[i]))

\* The text a block's statement is taken from: what follows its last
\* "Statement:" label, or the whole block when there is no such label or
\* nothing follows it.
RECURSIVE LastLabel(_, _)
LastLabel(b, i) ==
    IF i = 0 THEN 0
    ELSE IF b[i] = "STMT" THEN i ELSE LastLabel(b, i - 1)

StatementText(b) ==
    LET p == LastLabel(b, Len(b))
        after == strip(SubSeq(b, p + 1, Len(b)))
    IN  IF p > 0 /\ after # <<>> THEN after ELSE b

\* Index of the first token of the line that holds token i of s.
RECURSIVE LineStart(_, _)
LineStart(s, i) ==
    IF i = 1 THEN 1
    ELSE IF s[i - 1] = "NL" THEN i ELSE LineStart(s, i - 1)

\* s has a word on a line that does not begin with "answer:".
HasKeptWord(s) ==
    \E i \in 1..Len(s) : s[i] = "W" /\ s[LineStart(s, i)] # "ANS"

NoAnswerLine(statement) ==
    \A i \in 1..Len(splitlines(statement)) :
        ~StartsWithAnswer(splitlines(statement)[i])

----------------------------------------------------------------------------
(* Properties of _block_parse, checked under ParseSpec *)

\* C4: a text whose K "### Problem i" blocks are all well-formed, parsed with
\* a requested count 1 <= N <= K, yields exactly N records, record i holding
\* the statement and the solution of block i, both non-empty.
C4_WellFormedYieldsN ==
    (phase = "done" /\ num >= 1 /\ AllWellFormed(txt)
        /\ num <= Len(ProblemBlocks(txt)))
    => /\ Len(parsed) = num
       /\ \A i \in 1..num :
            /\ i <= Len(parsed)
            /\ parsed[i].statement = WellFormedStatement(ProblemBlocks(txt)[i])
            /\ parsed[i].solution = WellFormedSolution(ProblemBlocks(txt)[i])
            /\ parsed[i].statement # <<>>
            /\ parsed[i].solution # <<>>

\* C5: a text with K "### Problem i" blocks, K < N, yields exactly K records.
C5_NeverFabricates ==
    (phase = "done" /\ Len(ProblemBlocks(txt)) < num)
    => Len(parsed) = Len(ProblemBlocks(txt))

\* C6: the parser never returns more than N records, whatever N is.
C6_AtMostN ==
    phase = "done" => Len(parsed) <= num

\* C7: no line of a returned statement begins with "answer:" (stated for a
\* positive requested count).
C7_NoAnswerLine ==
    (phase = "done" /\ num >= 1) =>
        \A i \in 1..Len(parsed) : NoAnswerLine(parsed[i].statement)

\* C8 as stated: the record of a non-empty block with no "Solution:" label
\* has a non-empty statement and an empty solution (stated for a positive
\* requested count).
C8_NoSolutionLabel ==
    (phase = "done" /\ num >= 1) =>
        \A i \in 1..Len(parsed) :
            Find(CandidateBlocks(txt)[i], {"SOLN"}) = 0
            => /\ parsed[i].statement # <<>>
               /\ parsed[i].solution = <<>>

\* C8 amended: the record of a non-empty block with no "Solution:" label has
\* an empty solution, and a non-empty statement whenever the text the
\* statement is taken from has a word on a line not beginning with "answer:".
C8_NoSolutionLabelAmended ==
    phase = "done" =>
        \A i \in 1..Len(parsed) :
            Find(CandidateBlocks(txt)[i], {"SOLN"}) = 0
            => /\ parsed[i].solution = <<>>
               /\ HasKeptWord(StatementText(CandidateBlocks(txt)[i]))
                    => parsed[i].statement # <<>>

\* A block with a "Statement:" label, a word and no "Solution:" label was
\* parsed, after a block that has both labels.
C8_Witness ==
    /\ phase = "done"
    /\ Len(parsed) = 2
    /\ Find(CandidateBlocks(txt)[1], {"SOLN"}) > 0
    /\ Find(CandidateBlocks(txt)[2], {"SOLN"}) = 0
    /\ Find(CandidateBlocks(txt)[2], {"STMT"}) > 0
    /\ parsed[2].statement = <<"W">>
    /\ parsed[2].solution = <<>>

----------------------------------------------------------------------------
(* Vocabulary of the wrapper's properties *)

\* The attempt ended in a status other than 200 or in an exception.
Failed(o) == o.kind \in {"status", "exception"}

\* The attempt's text parses to at least N records.
Yields(o) ==
    o.kind = "ok" /\ Len(_block_parse(o.raw, num_problems)) >= num_problems

\* The attempt retrieved a text that is not blank.
GotText(o) == o.kind = "ok" /\ o.raw.isstr /\ strip(o.raw.s) # <<>>

\* The attempt retrieved a non-empty text.
GotString(o) == o.kind = "ok" /\ o.raw.isstr /\ o.raw.s # <<>>

\* The content of the last attempt that retrieved a non-empty text.
LastText ==
    LET k == CHOOSE k \in 1..Len(history) :
                /\ GotString(history[k])
                /\ \A j \in (k + 1)..Len(history) : ~GotString(history[j])
    IN  history[k].raw

\* Every attempt was made and none returned.
Exhausted ==
    /\ Len(history) = max_attempts
    /\ \A k \in 1..Len(history) : ~Yields(history[k])

CallCount == Cardinality({i \in 1..Len(log) : log[i].op = "call"})

RECURSIVE SleptIn(_)
SleptIn(l) ==
    IF l = <<>> THEN 0
    ELSE (IF Head(l).op = "sleep" THEN Head(l).n ELSE 0) + SleptIn(Tail(l))

TotalSlept == SleptIn(log)

IsRecordList(r) ==
    \A i \in 1..Len(r) : DOMAIN r[i] = {"title", "statement", "solution"}

----------------------------------------------------------------------------
(* Properties of call_hackai_generate, checked under Spec *)

\* C1: no exception leaves call_hackai_generate; what it returns is a list
\* of records; when every attempt failed (status or exception) it returns
\* exactly the one "API Error" record.
C1_NeverRaises ==
    /\ ~raised
    /\ pc = "done" => IsRecordList(result)
    /\ (pc = "done" /\ Len(history) = max_attempts
            /\ \A k \in 1..Len(history) : Failed(history[k]))
       => result = <<ApiErrorRecord>>

\* Three attempts failed, by a status and by exceptions, and the call
\* returned the "API Error" record.
C1_Witness ==
    /\ pc = "done"
    /\ Len(history) = max_attempts
    /\ history[1].kind = "status"
    /\ history[2].kind = "exception"
    /\ history[3].kind = "exception"
    /\ result = <<ApiErrorRecord>>

\* C2: at most max_attempts remote calls are issued; an attempt whose text
\* parses to at least N records is the last call, and the call returns that
\* parse at once (exactly N records when N >= 1).
C2_ReturnsOnFirstSuccess ==
    /\ CallCount <= max_attempts
    /\ Len(history) = CallCount
    /\ \A k \in 1..Len(history) :
          Yields(history[k])
          => /\ k = Len(history)
             /\ pc = "done"
             /\ result = _block_parse(history[k].raw, num_problems)
             /\ num_problems >= 1 => Len(result) = num_problems

\* Attempts 1 and 2 failed, attempt 3 answered with two blocks for N = 2, and
\* the call returned two records after three calls.
C2_Witness ==
    /\ pc = "done"
    /\ num_problems = 2
    /\ Len(history) = 3
    /\ Failed(history[1])
    /\ Failed(history[2])
    /\ history[3] = [kind |-> "ok", raw |-> Str(BlockText(2))]
    /\ Len(result) = 2
    /\ CallCount = 3

\* C3: when no attempt yields N records but some attempt retrieved a text
\* that is not blank, the result is the parse of the last non-empty text
\* retrieved; the "API Error" record is returned only if no attempt
\* retrieved such a text.
C3_ParsesLastText ==
    /\ (pc = "done" /\ (\A k \in 1..Len(history) : ~Yields(history[k]))
            /\ (\E k \in 1..Len(history) : GotText(history[k])))
       => result = _block_parse(LastText, num_problems)
    /\ (pc = "done" /\ result = <<ApiErrorRecord>>)
       => \A k \in 1..Len(history) : ~GotText(history[k])

\* C9: call k is the k-th call; when it fails, the next thing that happens is
\* one sleep of backoff * k, and only then call k + 1; calls and sleeps
\* alternate.
C9_BackoffBetweenAttempts ==
    /\ \A k \in 1..Len(history) :
          Failed(history[k])
          => /\ log[2 * k - 1] = [op |-> "call", n |-> k]
             /\ Len(log) >= 2 * k
                  => log[2 * k] = [op |-> "sleep", n |-> backoff * k]
             /\ Len(log) >= 2 * k + 1
                  => log[2 * k + 1] = [op |-> "call", n |-> k + 1]
    /\ \A i \in 1..(Len(log) - 1) : log[i].op # log[i + 1].op

\* Call 1 failed by status, call 2 by exception, call 3 was issued, with
\* sleeps of 2 and 4 in between for backoff = 2.
C9_Witness ==
    /\ backoff = 2
    /\ Len(history) = 3
    /\ history[1].kind = "status"
    /\ history[2].kind = "exception"
    /\ log = <<[op |-> "call", n |-> 1], [op |-> "sleep", n |-> 2],
               [op |-> "call", n |-> 2], [op |-> "sleep", n |-> 4],
               [op |-> "call", n |-> 3]>>

\* C10: every attempt that did not return, a short one and the last one
\* included, is followed by exactly one sleep of backoff * k; a call that
\* exhausts its attempts has slept 6 * backoff in all; fewer than N records
\* are returned only after all the attempts.
C10_EveryAttemptWaits ==
    /\ \A k \in 1..Len(history) :
          (~Yields(history[k]) /\ (k < Len(history) \/ pc \in {"post", "fallback", "done"}))
          => /\ Len(log) >= 2 * k
             /\ log[2 * k] = [op |-> "sleep", n |-> backoff * k]
    /\ Len(log) <= 2 * Len(history)
    /\ (pc \in {"fallback", "done"} /\ Exhausted)
       => /\ TotalSlept = 6 * backoff
          /\ Len(log) = 2 * max_attempts
    /\ (pc = "done" /\ Len(result) < num_problems)
       => /\ Len(history) = max_attempts
          /\ TotalSlept = 6 * backoff

\* Three attempts, the last one a text of one block for N = 2: the call slept
\* 2 + 4 + 6 for backoff = 2 and returned the one record.
C10_Witness ==
    /\ pc = "done"
    /\ backoff = 2
    /\ num_problems = 2
    /\ Exhausted
    /\ history[3] = [kind |-> "ok", raw |-> Str(BlockText(1))]
    /\ Len(result) = 1
    /\ TotalSlept = 12

====
